---- MODULE Spec2Model ----
(***************************************************************************)
(* Model of the devinit generation engine: template loading, variable      *)
(* merge, conditional file selection, render/copy and metadata emission,   *)
(* and of the system validator: requirement checks and version constraints.*)
(*                                                                         *)
(* Go strings that the code inspects character by character (conditions,   *)
(* file names, paths) are sequences of one-character strings.  Dynamically *)
(* typed values (interface{}) are records [t |-> type tag, v |-> text].    *)
(***************************************************************************)
EXTENDS Integers, Sequences, FiniteSets, TLC

VARIABLES
    bundle,     \* the template bundle on disk, as Loader.Load sees it
    opts,       \* the caller's Options (all but DryRun, which each call sets)
    fs,         \* the filesystem under the working directory
    pc,         \* position of the running Generate call
    dryRun,     \* opts.DryRun of the running call
    tmpl,       \* the loaded *template.Template of the running call
    ctx,        \* the *template.Context of the running call
    idx,        \* index of the next FileSpec of tmpl.Files
    notices,    \* lines printed by the running call
    writes,     \* filesystem mutations made by the running call, in order
    err,        \* the error returned by the call ("" is nil)
    fsBefore,   \* the filesystem when the running call started
    history,    \* summaries of the calls that returned
    fnOp,       \* pure functions: the function applied last
    fnIn,       \* pure functions: its arguments
    fnOut,      \* pure functions: its result
    level,      \* SystemValidator.Level
    reqs,       \* the requirements handed to Validate
    installed,  \* what exec.LookPath and the version probe find per command
    scope,      \* the template variables in effect when Validate is called
    reqIdx,     \* index of the next requirement of the running Validate
    probed,     \* indices of the requirements CheckCommand was called for
    result,     \* the *ValidationResult being built
    vpc         \* position of the running Validate call

vars == <<bundle, opts, fs, pc, dryRun, tmpl, ctx, idx, notices, writes, err,
          fsBefore, history, fnOp, fnIn, fnOut,
          level, reqs, installed, scope, reqIdx, probed, result, vpc>>

genVars == <<bundle, opts, fs, pc, dryRun, tmpl, ctx, idx, notices, writes,
             err, fsBefore, history>>

fnVars == <<fnOp, fnIn, fnOut>>

valVars == <<level, reqs, installed, scope, reqIdx, probed, result, vpc>>

----------------------------------------------------------------------------
(* Bounds *)

MaxFiles == 2
MaxConds == 2
MaxPad == 1

----------------------------------------------------------------------------
(* Go strings *)

Space == {" ", "\t"}

RECURSIVE TrimLeft(_)
TrimLeft(s) ==
    IF s # <<>> /\ Head(s) \in Space THEN TrimLeft(Tail(s)) ELSE s

RECURSIVE TrimRight(_)
TrimRight(s) ==
    IF s # <<>> /\ s[Len(s)] \in Space
    THEN TrimRight(SubSeq(s, 1, Len(s) - 1))
    ELSE s

TrimSpace(s) == TrimRight(TrimLeft(s))

HasPrefix(s, p) == Len(s) >= Len(p) /\ SubSeq(s, 1, Len(p)) = p

HasSuffix(s, p) ==
    Len(s) >= Len(p) /\ SubSeq(s, Len(s) - Len(p) + 1, Len(s)) = p

TrimPrefix(s, p) == IF HasPrefix(s, p) THEN SubSeq(s, Len(p) + 1, Len(s)) ELSE s

TrimSuffix(s, p) == IF HasSuffix(s, p) THEN SubSeq(s, 1, Len(s) - Len(p)) ELSE s

----------------------------------------------------------------------------
(* Variable keys and values *)

IncludeDocker == <<"I","n","c","l","u","d","e","D","o","c","k","e","r">>
IncludeTests == <<"I","n","c","l","u","d","e","T","e","s","t","s">>
CustomFlag == <<"C","u","s","t","o","m","F","l","a","g">>
NonExistent == <<"N","o","n","E","x","i","s","t","e","n","t">>

Keys == {IncludeDocker, IncludeTests, CustomFlag}

BoolTrue == [t |-> "bool", v |-> "true"]
BoolFalse == [t |-> "bool", v |-> "false"]
StrTrue == [t |-> "string", v |-> "true"]
Nil == [t |-> "nil", v |-> "<nil>"]

Values == {BoolTrue, BoolFalse, StrTrue}

\* map[string]interface{} over the model's keys
VarMaps == UNION {[D -> Values] : D \in SUBSET Keys}

----------------------------------------------------------------------------
(* template.Context *)

\* v, ok := variables[key].(bool): the zero value when absent or not a bool
BoolField(variables, key) ==
    key \in DOMAIN variables /\ variables[key] = BoolTrue

\* the convenience fields take any value printed as "true"
NewContext_anyTrue(projectName, outputDir, variables, t) ==
    [ProjectName |-> projectName,
     OutputDir |-> outputDir,
     Variables |-> variables,
     Template |-> t,
     IncludeDocker |-> IncludeDocker \in DOMAIN variables
                          /\ variables[IncludeDocker].v = "true",
     IncludeTests |-> IncludeTests \in DOMAIN variables
                          /\ variables[IncludeTests].v = "true"]

NewContext(projectName, outputDir, variables, t) ==
    [ProjectName |-> projectName,
     OutputDir |-> outputDir,
     Variables |-> variables,
     Template |-> t,
     IncludeDocker |-> BoolField(variables, IncludeDocker),
     IncludeTests |-> BoolField(variables, IncludeTests)]

GetBool(c, key) ==
    IF key \in DOMAIN c.Variables
    THEN IF c.Variables[key].t = "bool" THEN c.Variables[key].v = "true" ELSE FALSE
    ELSE FALSE

----------------------------------------------------------------------------
(* Generator: conditions *)

\* the delimiters are stripped but the text between them is not trimmed
Normalize_noInnerTrim(condition) ==
    LET c1 == TrimSpace(TrimSpace(condition))
        c2 == IF HasPrefix(c1, <<"{", "{">>) /\ HasSuffix(c1, <<"}", "}">>)
              THEN SubSeq(c1, 3, Len(c1) - 2)
              ELSE c1
    IN  TrimPrefix(c2, <<".">>)

Normalize(condition) ==
    LET c1 == TrimSpace(TrimSpace(condition))
        c2 == IF HasPrefix(c1, <<"{", "{">>) /\ HasSuffix(c1, <<"}", "}">>)
              THEN TrimSpace(SubSeq(c1, 3, Len(c1) - 2))
              ELSE c1
    IN  TrimPrefix(c2, <<".">>)

evaluateCondition(condition, c) ==
    LET key == Normalize(condition)
    IN  CASE key = IncludeDocker -> c.IncludeDocker
          [] key = IncludeTests -> c.IncludeTests
          [] OTHER -> GetBool(c, key)

\* the loop of shouldGenerateFile from condition i on
RECURSIVE CondLoop(_, _, _)
CondLoop(conds, i, c) ==
    IF i > Len(conds) THEN TRUE
    ELSE IF ~evaluateCondition(conds[i], c) THEN FALSE
    ELSE CondLoop(conds, i + 1, c)

\* only the first condition decides
shouldGenerateFile_firstOnly(fileSpec, c) ==
    IF Len(fileSpec.Conditions) = 0 THEN TRUE
    ELSE evaluateCondition(fileSpec.Conditions[1], c)

shouldGenerateFile(fileSpec, c) ==
    IF Len(fileSpec.Conditions) = 0 THEN TRUE
    ELSE CondLoop(fileSpec.Conditions, 1, c)

----------------------------------------------------------------------------
(* Generator: variables *)

\* the defaults are applied after the caller's values
mergeVariables_defaultsWin(tmplVars, userVars) ==
    LET defaults == {k \in DOMAIN tmplVars : tmplVars[k] # Nil}
    IN  [k \in defaults \cup DOMAIN userVars |->
            IF k \in defaults THEN tmplVars[k] ELSE userVars[k]]

\* tmplVars: key -> Variable.Default (Nil when the declaration has none)
mergeVariables(tmplVars, userVars) ==
    LET defaults == {k \in DOMAIN tmplVars : tmplVars[k] # Nil}
    IN  [k \in defaults \cup DOMAIN userVars |->
            IF k \in DOMAIN userVars THEN userVars[k] ELSE tmplVars[k]]

----------------------------------------------------------------------------
(* path/filepath *)

Slash == "/"
Dot == <<".">>
DotDot == <<".", ".">>

\* strings.Split(p, "/")
RECURSIVE SplitPath(_)
SplitPath(p) ==
    IF p = <<>> THEN << <<>> >>
    ELSE IF Head(p) = Slash THEN << <<>> >> \o SplitPath(Tail(p))
    ELSE LET r == SplitPath(Tail(p))
         IN  << <<Head(p)>> \o r[1] >> \o Tail(r)

RECURSIVE JoinSegs(_)
JoinSegs(segs) ==
    IF segs = <<>> THEN <<>>
    ELSE IF Len(segs) = 1 THEN segs[1]
    ELSE segs[1] \o <<Slash>> \o JoinSegs(Tail(segs))

\* the lexical processing of filepath.Clean, element by element
RECURSIVE CleanSegs(_, _, _)
CleanSegs(segs, acc, rooted) ==
    IF segs = <<>> THEN acc
    ELSE LET e == Head(segs)
             rest == Tail(segs)
         IN  IF e = <<>> \/ e = Dot THEN CleanSegs(rest, acc, rooted)
             ELSE IF e = DotDot
             THEN IF acc # <<>> /\ acc[Len(acc)] # DotDot
                  THEN CleanSegs(rest, SubSeq(acc, 1, Len(acc) - 1), rooted)
                  ELSE IF rooted THEN CleanSegs(rest, acc, rooted)
                  ELSE CleanSegs(rest, Append(acc, e), rooted)
             ELSE CleanSegs(rest, Append(acc, e), rooted)

Segs(p) == CleanSegs(SplitPath(p), <<>>, HasPrefix(p, <<Slash>>))

FromSegs(segs, rooted) ==
    IF rooted THEN <<Slash>> \o JoinSegs(segs)
    ELSE IF segs = <<>> THEN Dot
    ELSE JoinSegs(segs)

Clean(p) == FromSegs(Segs(p), HasPrefix(p, <<Slash>>))

\* filepath.Join of two elements: empty elements are ignored
Join(a, b) ==
    IF a = <<>> /\ b = <<>> THEN <<>>
    ELSE IF a = <<>> THEN Clean(b)
    ELSE IF b = <<>> THEN Clean(a)
    ELSE Clean(a \o <<Slash>> \o b)

\* filepath.Dir
Dir(p) ==
    LET segs == SplitPath(p)
        d == JoinSegs(SubSeq(segs, 1, Len(segs) - 1))
    IN  IF Len(segs) = 1 THEN Dot
        ELSE IF d = <<>> THEN <<Slash>>
        ELSE Clean(d)

\* the directories os.MkdirAll(p) needs: p and every ancestor of it
Ancestors(p) ==
    LET segs == Segs(p)
        rooted == HasPrefix(p, <<Slash>>)
    IN  {FromSegs(SubSeq(segs, 1, n), rooted) : n \in 1..Len(segs)}

----------------------------------------------------------------------------
(* template.Renderer *)

TmplSuffix == <<".", "t", "m", "p", "l">>

ShouldRender(filename) == HasSuffix(filename, TmplSuffix)

GetOutputFilename_anyTmpl(filename) ==
    IF HasSuffix(filename, Tail(TmplSuffix))
    THEN TrimSuffix(filename, Tail(TmplSuffix))
    ELSE filename

GetOutputFilename(filename) ==
    IF HasSuffix(filename, TmplSuffix)
    THEN TrimSuffix(filename, TmplSuffix)
    ELSE filename

----------------------------------------------------------------------------
(* Errors, file contents, filesystem *)

NoErr == [msg |-> "", arg |-> <<>>]
Error(msg, arg) == [msg |-> msg, arg |-> arg]

EmptyBody == [schema_version |-> "", name |-> <<"", "">>, version |-> "",
              variables |-> <<>>]

Rendered(src) == [kind |-> "rendered", src |-> src, body |-> EmptyBody]
Copied(src) == [kind |-> "copied", src |-> src, body |-> EmptyBody]
Partial == [kind |-> "partial", src |-> <<>>, body |-> EmptyBody]

EmptyFS == [dirs |-> {}, files |-> <<>>]

Put(files, path, content) ==
    [p \in DOMAIN files \cup {path} |-> IF p = path THEN content ELSE files[p]]

\* os.MkdirAll(p): nothing to do when p is a directory already; fails when
\* p or an ancestor of p is a regular file, or when the environment refuses
\* (permissions, read-only filesystem)
MkdirAll(fsys, p) ==
    LET blocked == \E a \in Ancestors(p) : a \in DOMAIN fsys.files
        made == [fsys EXCEPT !.dirs = @ \cup Ancestors(p)]
    IN  IF Ancestors(p) \subseteq fsys.dirs
        THEN {[err |-> "", fs |-> fsys, log |-> <<>>]}
        ELSE {[err |-> "mkdir: failed", fs |-> fsys, log |-> <<>>]}
             \cup (IF blocked THEN {}
                   ELSE {[err |-> "", fs |-> made,
                          log |-> <<[op |-> "mkdir", path |-> Clean(p)]>>]})

\* os.WriteFile(path, content): opens with O_CREATE|O_TRUNC, then writes.
\* A failed open leaves the filesystem as it was; a failed write leaves a
\* truncated or partly written file.
WriteFile(fsys, path, content) ==
    LET parent == Dir(path)
        canOpen == /\ path \notin fsys.dirs
                   /\ (parent = Dot \/ parent \in fsys.dirs)
        wrote == <<[op |-> content.kind, path |-> path]>>
    IN  {[err |-> "open: failed", fs |-> fsys, log |-> <<>>]}
        \cup (IF canOpen
              THEN {[err |-> "",
                     fs |-> [fsys EXCEPT !.files = Put(@, path, content)],
                     log |-> wrote],
                    [err |-> "write: failed",
                     fs |-> [fsys EXCEPT !.files = Put(@, path, Partial)],
                     log |-> wrote]}
              ELSE {})

----------------------------------------------------------------------------
(* template.Loader *)

NoTemplate == [Version |-> "", Name |-> "", Language |-> "", Framework |-> "",
               Variables |-> <<>>, Files |-> <<>>]

\* os.Stat(filepath.Join(filesDir, source)) does not report IsNotExist
SourceExists(b, source) == Clean(source) \in b.present

RECURSIVE FirstMissing(_, _, _)
FirstMissing(b, files, i) ==
    IF i > Len(files) THEN 0
    ELSE IF ~SourceExists(b, files[i].Source) THEN i
    ELSE FirstMissing(b, files, i + 1)

\* the file sources are not checked
validate_noSourceCheck(b, t) ==
    IF t.Version = "" THEN "version is required"
    ELSE IF t.Name = "" THEN "name is required"
    ELSE IF t.Language = "" THEN "language is required"
    ELSE ""

validate(b, t) ==
    IF t.Version = "" THEN "version is required"
    ELSE IF t.Name = "" THEN "name is required"
    ELSE IF t.Language = "" THEN "language is required"
    ELSE IF FirstMissing(b, t.Files, 1) # 0 THEN "file not found"
    ELSE ""

Load(b) ==
    IF ~b.dir THEN [err |-> "template not found", tmpl |-> NoTemplate]
    ELSE IF b.yaml = "unreadable"
    THEN [err |-> "failed to read template.yaml", tmpl |-> NoTemplate]
    ELSE IF b.yaml = "unparsable"
    THEN [err |-> "failed to parse template.yaml", tmpl |-> NoTemplate]
    ELSE IF validate(b, b.meta) # ""
    THEN [err |-> "invalid template", tmpl |-> NoTemplate]
    ELSE [err |-> "", tmpl |-> b.meta]

----------------------------------------------------------------------------
(* template.Renderer: files *)

\* the write that follows a successful MkdirAll of the parent directory
WriteUnder(fsys, path, content) ==
    UNION {IF m.err # "" THEN {m}
           ELSE {[w EXCEPT !.log = m.log \o @] : w \in WriteFile(m.fs, path, content)} :
             m \in MkdirAll(fsys, Dir(path))}

\* Renderer.Render fails when the template cannot be read, parsed or executed
RenderToFile(fsys, templatePath, outputPath) ==
    {[err |-> "render: failed", fs |-> fsys, log |-> <<>>]}
    \cup WriteUnder(fsys, outputPath, Rendered(templatePath))

CopyFile(fsys, srcPath, dstPath) ==
    {[err |-> "failed to read file", fs |-> fsys, log |-> <<>>]}
    \cup WriteUnder(fsys, dstPath, Copied(srcPath))

----------------------------------------------------------------------------
(* Generator.Generate *)

MetadataName == <<".", "d", "e", "v", "i", "n", "i", "t", ".", "y", "a", "m", "l">>

\* fmt.Sprintf("%v", value)
Format(value) == value.v

\* the orders in which a range over a Go map can visit its keys
Orders(S) ==
    {o \in [1..Cardinality(S) -> S] : \A i, j \in DOMAIN o : i # j => o[i] # o[j]}

\* the declared defaults are listed, not the merged values
MetadataBody_declared(c, t, order) ==
    [schema_version |-> "1.0",
     name |-> <<t.Language, t.Framework>>,
     version |-> t.Version,
     variables |-> [i \in DOMAIN order |-> <<order[i], Format(t.Variables[order[i]])>>]]

MetadataBody(c, t, order) ==
    [schema_version |-> "1.0",
     name |-> <<t.Language, t.Framework>>,
     version |-> t.Version,
     variables |-> [i \in DOMAIN order |-> <<order[i], Format(c.Variables[order[i]])>>]]

createMetadataFile(fsys, c, t) ==
    UNION {WriteFile(fsys, Join(c.OutputDir, MetadataName),
                     [kind |-> "meta", src |-> <<>>, body |-> MetadataBody(c, t, o)]) :
             o \in Orders(DOMAIN c.Variables)}

Notice(kind, src, path) == [kind |-> kind, src |-> src, path |-> path]

\* the path generateFile writes (or would write) for fileSpec
OutputPath(outputDir, fileSpec) ==
    IF ShouldRender(fileSpec.Source)
    THEN Join(outputDir, GetOutputFilename(fileSpec.Destination))
    ELSE Join(outputDir, fileSpec.Destination)

\* the dry-run flag is not consulted
generateFile_ignoresDryRun(fsys, filesDir, fileSpec, c, dry) ==
    LET sourcePath == Join(filesDir, fileSpec.Source)
        destPath == Join(c.OutputDir, fileSpec.Destination)
        actualDest == Join(c.OutputDir, GetOutputFilename(fileSpec.Destination))
        Done(r, path) ==
            [err |-> r.err, fs |-> r.fs, log |-> r.log,
             out |-> IF r.err = "" THEN <<Notice("Created", <<>>, path)>> ELSE <<>>]
    IN  IF ShouldRender(fileSpec.Source)
        THEN {Done(r, actualDest) : r \in RenderToFile(fsys, sourcePath, actualDest)}
        ELSE {Done(r, destPath) : r \in CopyFile(fsys, sourcePath, destPath)}

\* the dry run announces a rendered file under its unstripped destination
generateFile_dryRawDest(fsys, filesDir, fileSpec, c, dry) ==
    LET sourcePath == Join(filesDir, fileSpec.Source)
        destPath == Join(c.OutputDir, fileSpec.Destination)
        actualDest == Join(c.OutputDir, GetOutputFilename(fileSpec.Destination))
        Done(r, path) ==
            [err |-> r.err, fs |-> r.fs, log |-> r.log,
             out |-> IF r.err = "" THEN <<Notice("Created", <<>>, path)>> ELSE <<>>]
        NoOp(kind, path) ==
            [err |-> "", fs |-> fsys, log |-> <<>>,
             out |-> <<Notice(kind, fileSpec.Source, path)>>]
    IN  IF ShouldRender(fileSpec.Source)
        THEN IF dry THEN {NoOp("Would render", destPath)}
             ELSE {Done(r, actualDest) : r \in RenderToFile(fsys, sourcePath, actualDest)}
        ELSE IF dry THEN {NoOp("Would copy", destPath)}
             ELSE {Done(r, destPath) : r \in CopyFile(fsys, sourcePath, destPath)}

\* a rendered file is written under its unstripped destination
generateFile_keepsSuffix(fsys, filesDir, fileSpec, c, dry) ==
    LET sourcePath == Join(filesDir, fileSpec.Source)
        destPath == Join(c.OutputDir, fileSpec.Destination)
        Done(r, path) ==
            [err |-> r.err, fs |-> r.fs, log |-> r.log,
             out |-> IF r.err = "" THEN <<Notice("Created", <<>>, path)>> ELSE <<>>]
        NoOp(kind, path) ==
            [err |-> "", fs |-> fsys, log |-> <<>>,
             out |-> <<Notice(kind, fileSpec.Source, path)>>]
    IN  IF ShouldRender(fileSpec.Source)
        THEN IF dry THEN {NoOp("Would render", destPath)}
             ELSE {Done(r, destPath) : r \in RenderToFile(fsys, sourcePath, destPath)}
        ELSE IF dry THEN {NoOp("Would copy", destPath)}
             ELSE {Done(r, destPath) : r \in CopyFile(fsys, sourcePath, destPath)}

\* the destination, not the source, decides between render and copy
generateFile_byDestination(fsys, filesDir, fileSpec, c, dry) ==
    LET sourcePath == Join(filesDir, fileSpec.Source)
        destPath == Join(c.OutputDir, fileSpec.Destination)
        actualDest == Join(c.OutputDir, GetOutputFilename(fileSpec.Destination))
        Done(r, path) ==
            [err |-> r.err, fs |-> r.fs, log |-> r.log,
             out |-> IF r.err = "" THEN <<Notice("Created", <<>>, path)>> ELSE <<>>]
        NoOp(kind, path) ==
            [err |-> "", fs |-> fsys, log |-> <<>>,
             out |-> <<Notice(kind, fileSpec.Source, path)>>]
    IN  IF ShouldRender(fileSpec.Destination)
        THEN IF dry THEN {NoOp("Would render", actualDest)}
             ELSE {Done(r, actualDest) : r \in RenderToFile(fsys, sourcePath, actualDest)}
        ELSE IF dry THEN {NoOp("Would copy", destPath)}
             ELSE {Done(r, destPath) : r \in CopyFile(fsys, sourcePath, destPath)}

\* the outcomes of generateFile: error, filesystem, mutations, printed lines
generateFile(fsys, filesDir, fileSpec, c, dry) ==
    LET sourcePath == Join(filesDir, fileSpec.Source)
        destPath == Join(c.OutputDir, fileSpec.Destination)
        actualDest == Join(c.OutputDir, GetOutputFilename(fileSpec.Destination))
        Done(r, path) ==
            [err |-> r.err, fs |-> r.fs, log |-> r.log,
             out |-> IF r.err = "" THEN <<Notice("Created", <<>>, path)>> ELSE <<>>]
        NoOp(kind, path) ==
            [err |-> "", fs |-> fsys, log |-> <<>>,
             out |-> <<Notice(kind, fileSpec.Source, path)>>]
    IN  IF ShouldRender(fileSpec.Source)
        THEN IF dry THEN {NoOp("Would render", actualDest)}
             ELSE {Done(r, actualDest) : r \in RenderToFile(fsys, sourcePath, actualDest)}
        ELSE IF dry THEN {NoOp("Would copy", destPath)}
             ELSE {Done(r, destPath) : r \in CopyFile(fsys, sourcePath, destPath)}

FilesDirName == <<"f", "i", "l", "e", "s">>

NoContext == NewContext(<<>>, <<>>, <<>>, NoTemplate)

\* Generate, lines 37-63: load, merge, context, project directory
GenerateStart(d) ==
    /\ pc = "idle"
    /\ dryRun' = d
    /\ fsBefore' = fs
    /\ notices' = <<>>
    /\ idx' = 1
    /\ LET l == Load(bundle)
           variables == mergeVariables(l.tmpl.Variables, opts.Variables)
           outputDir == IF opts.OutputDir = <<>> THEN opts.ProjectName
                        ELSE opts.OutputDir
       IN  IF l.err # ""
           THEN /\ err' = Error("failed to load template", <<>>)
                /\ pc' = "returned"
                /\ tmpl' = NoTemplate
                /\ ctx' = NoContext
                /\ UNCHANGED fs
                /\ writes' = <<>>
           ELSE /\ tmpl' = l.tmpl
                /\ ctx' = NewContext(opts.ProjectName, outputDir, variables, l.tmpl)
                /\ IF d
                   THEN /\ err' = NoErr
                        /\ pc' = "files"
                        /\ UNCHANGED fs
                        /\ writes' = <<>>
                   ELSE \E m \in MkdirAll(fs, outputDir) :
                          /\ fs' = m.fs
                          /\ writes' = m.log
                          /\ IF m.err # ""
                             THEN /\ err' = Error("failed to create project directory", <<>>)
                                  /\ pc' = "returned"
                             ELSE /\ err' = NoErr
                                  /\ pc' = "files"
    /\ UNCHANGED <<bundle, opts, history, fnVars, valVars>>

\* a failed file is recorded and the loop goes on
GenerateFile_continues ==
    /\ pc = "files"
    /\ idx <= Len(tmpl.Files)
    /\ LET fileSpec == tmpl.Files[idx]
       IN  IF ~shouldGenerateFile(fileSpec, ctx)
           THEN /\ notices' = IF dryRun
                              THEN Append(notices, Notice("Skipped", <<>>, fileSpec.Destination))
                              ELSE notices
                /\ UNCHANGED <<fs, writes, err>>
           ELSE \E r \in generateFile(fs, FilesDirName, fileSpec, ctx, dryRun) :
                  /\ fs' = r.fs
                  /\ writes' = writes \o r.log
                  /\ notices' = notices \o r.out
                  /\ err' = IF r.err # ""
                            THEN Error("failed to generate file", fileSpec.Destination)
                            ELSE err
    /\ idx' = idx + 1
    /\ UNCHANGED <<bundle, opts, pc, dryRun, tmpl, ctx, fsBefore, history, fnVars, valVars>>

\* Generate, lines 67-79: one iteration of the loop over tmpl.Files
GenerateFile ==
    /\ pc = "files"
    /\ idx <= Len(tmpl.Files)
    /\ LET fileSpec == tmpl.Files[idx]
       IN  IF ~shouldGenerateFile(fileSpec, ctx)
           THEN /\ notices' = IF dryRun
                              THEN Append(notices, Notice("Skipped", <<>>, fileSpec.Destination))
                              ELSE notices
                /\ idx' = idx + 1
                /\ UNCHANGED <<fs, writes, err, pc>>
           ELSE \E r \in generateFile(fs, FilesDirName, fileSpec, ctx, dryRun) :
                  /\ fs' = r.fs
                  /\ writes' = writes \o r.log
                  /\ notices' = notices \o r.out
                  /\ IF r.err # ""
                     THEN /\ err' = Error("failed to generate file", fileSpec.Destination)
                          /\ pc' = "returned"
                          /\ UNCHANGED idx
                     ELSE /\ idx' = idx + 1
                          /\ UNCHANGED <<err, pc>>
    /\ UNCHANGED <<bundle, opts, dryRun, tmpl, ctx, fsBefore, history, fnVars, valVars>>

\* the metadata file is written before the last FileSpec is processed
GenerateFinish_beforeLast ==
    /\ pc = "files"
    /\ idx >= Len(tmpl.Files)
    /\ pc' = "returned"
    /\ IF dryRun
       THEN UNCHANGED <<fs, writes, err>>
       ELSE \E r \in createMetadataFile(fs, ctx, tmpl) :
              /\ fs' = r.fs
              /\ writes' = writes \o r.log
              /\ err' = IF r.err # "" THEN Error("failed to create metadata file", <<>>)
                        ELSE NoErr
    /\ UNCHANGED <<bundle, opts, dryRun, tmpl, ctx, idx, notices, fsBefore,
                   history, fnVars, valVars>>

\* Generate, lines 81-88: the metadata file, then return
GenerateFinish ==
    /\ pc = "files"
    /\ idx > Len(tmpl.Files)
    /\ pc' = "returned"
    /\ IF dryRun
       THEN UNCHANGED <<fs, writes, err>>
       ELSE \E r \in createMetadataFile(fs, ctx, tmpl) :
              /\ fs' = r.fs
              /\ writes' = writes \o r.log
              /\ err' = IF r.err # "" THEN Error("failed to create metadata file", <<>>)
                        ELSE NoErr
    /\ UNCHANGED <<bundle, opts, dryRun, tmpl, ctx, idx, notices, fsBefore,
                   history, fnVars, valVars>>

\* the call returns to its caller
Return ==
    /\ pc = "returned"
    /\ pc' = "idle"
    /\ history' = Append(history, [DryRun |-> dryRun, err |-> err,
                                   notices |-> notices, writes |-> writes])
    /\ UNCHANGED <<bundle, opts, fs, dryRun, tmpl, ctx, idx, notices, writes,
                   err, fsBefore, fnVars, valVars>>

----------------------------------------------------------------------------
(* Inputs *)

\* the three surface forms of a condition on key, with whitespace around
Braced(key, o1, i1, i2, o2) ==
    o1 \o <<"{", "{">> \o i1 \o <<".">> \o key \o i2 \o <<"}", "}">> \o o2
Dotted(key, o1, o2) == o1 \o <<".">> \o key \o o2
Bare(key, o1, o2) == o1 \o key \o o2

Pads == UNION {[1..n -> Space] : n \in 0..MaxPad}

MainTmpl == <<"m", ".", "t", "m", "p", "l">>
TestTmpl == <<"t", ".", "t", "m", "p", "l">>
Dockerfile == <<"D">>
Sources == {MainTmpl, Dockerfile}

FileSpec(src, dest, conds) ==
    [Source |-> src, Destination |-> dest, Conditions |-> conds]

\* the FileSpecs descriptors are built from: an always-included renderable
\* file in a subdirectory, a conditional static file, a renderable file whose
\* destination keeps the suffix, under two conditions, and a static file
\* whose destination is the subdirectory of the first
FileSpecs ==
    {FileSpec(MainTmpl, <<"s", "/", "m">>, <<>>),
     FileSpec(Dockerfile, Dockerfile,
              <<Braced(IncludeDocker, <<>>, <<" ">>, <<" ">>, <<>>)>>),
     FileSpec(MainTmpl, TestTmpl,
              <<Dotted(IncludeDocker, <<>>, <<>>), Bare(CustomFlag, <<>>, <<>>)>>),
     FileSpec(Dockerfile, <<"s">>, <<>>)}

FileLists == UNION {[1..n -> FileSpecs] : n \in 0..MaxFiles}

GenKeys == {IncludeDocker, CustomFlag}

\* Variable.Default of the declared variables
Declarations == [GenKeys -> {Nil, BoolTrue}]

\* opts.Variables
Overrides == UNION {[D -> {BoolTrue, BoolFalse}] : D \in SUBSET GenKeys}

Templates ==
    [Version : {"", "1.0"}, Name : {"", "api"}, Language : {"", "python"},
     Framework : {"fastapi"}, Variables : Declarations, Files : FileLists]

\* what is wrong with a bundle: at most one thing per bundle
Defects(b) ==
    (IF b.dir THEN 0 ELSE 1) + (IF b.yaml = "ok" THEN 0 ELSE 1)
    + (IF b.meta.Version = "" THEN 1 ELSE 0) + (IF b.meta.Name = "" THEN 1 ELSE 0)
    + (IF b.meta.Language = "" THEN 1 ELSE 0)
    + (IF b.present = Sources THEN 0 ELSE 1)

Bundles ==
    {b \in [dir : BOOLEAN, yaml : {"ok", "unreadable", "unparsable"},
            meta : Templates, present : SUBSET Sources] : Defects(b) <= 1}

Options ==
    [ProjectName : {<<"p">>}, Language : {"python"}, Framework : {"fastapi"},
     OutputDir : {<<>>, <<"o">>}, Variables : Overrides]

----------------------------------------------------------------------------
(* Specification of the generation engine *)

ValidationNone == 0
ValidationBasic == 1
ValidationStrict == 2

Levels == {ValidationNone, ValidationBasic, ValidationStrict}

Commands == {"go", "docker"}

NotInstalled == [exists |-> FALSE, version |-> <<>>]

EmptyResult == [Errors |-> <<>>, Warnings |-> <<>>]

NoValidate ==
    /\ level = ValidationBasic
    /\ reqs = <<>>
    /\ installed = [c \in Commands |-> NotInstalled]
    /\ scope = <<>>
    /\ reqIdx = 1
    /\ probed = {}
    /\ result = EmptyResult
    /\ vpc = "idle"

InitFn ==
    /\ fnOp = "none"
    /\ fnIn = <<>>
    /\ fnOut = <<>>

InitCall ==
    /\ fs = EmptyFS
    /\ pc = "idle"
    /\ dryRun = FALSE
    /\ tmpl = NoTemplate
    /\ ctx = NoContext
    /\ idx = 1
    /\ notices = <<>>
    /\ writes = <<>>
    /\ err = NoErr
    /\ fsBefore = EmptyFS
    /\ history = <<>>

Init ==
    /\ bundle \in Bundles
    /\ opts \in Options
    /\ InitCall
    /\ InitFn
    /\ NoValidate

\* the caller runs Generate on the same inputs once as a dry run and once
\* for real, in either order
NotYetRun(d) == \A i \in DOMAIN history : history[i].DryRun # d

Call(d) == NotYetRun(d) /\ GenerateStart(d)

Next ==
    \/ \E d \in BOOLEAN : Call(d)
    \/ GenerateFile
    \/ GenerateFinish
    \/ Return

Spec == Init /\ [][Next]_vars

----------------------------------------------------------------------------
(* Specification of the pure functions: each step applies one function to  *)
(* arguments drawn from bounded sets                                        *)

DefaultValues == {Nil, BoolTrue, BoolFalse, StrTrue}

Conditions ==
    {Braced(IncludeDocker, <<>>, <<" ">>, <<" ">>, <<>>),
     Dotted(IncludeTests, <<>>, <<>>),
     Bare(CustomFlag, <<>>, <<>>),
     Bare(IncludeDocker, <<" ">>, <<>>),
     Bare(NonExistent, <<>>, <<>>)}

ConditionLists == UNION {[1..n -> Conditions] : n \in 0..MaxConds}

Reverse(s) == [i \in DOMAIN s |-> s[Len(s) + 1 - i]]

FnContext(variables) == NewContext(<<"p">>, <<"p">>, variables, NoTemplate)

EvalCondition ==
    /\ fnOp = "none"
    /\ \E variables \in VarMaps, key \in Keys \cup {NonExistent},
          o1 \in Pads, i1 \in Pads, i2 \in Pads, o2 \in Pads :
         LET c == FnContext(variables)
         IN  /\ fnOp' = "evaluateCondition"
             /\ fnIn' = [variables |-> variables, key |-> key,
                         pads |-> <<o1, i1, i2, o2>>]
             /\ fnOut' = [braced |-> evaluateCondition(Braced(key, o1, i1, i2, o2), c),
                          dotted |-> evaluateCondition(Dotted(key, o1, o2), c),
                          bare |-> evaluateCondition(Bare(key, i1, i2), c)]
    /\ UNCHANGED <<genVars, valVars>>

ShouldGenerate ==
    /\ fnOp = "none"
    /\ \E variables \in VarMaps, conds \in ConditionLists :
         LET c == FnContext(variables)
         IN  /\ fnOp' = "shouldGenerateFile"
             /\ fnIn' = [variables |-> variables, conds |-> conds]
             /\ fnOut' = [result |-> shouldGenerateFile(
                                       FileSpec(Dockerfile, Dockerfile, conds), c),
                          reversed |-> shouldGenerateFile(
                                       FileSpec(Dockerfile, Dockerfile, Reverse(conds)), c)]
    /\ UNCHANGED <<genVars, valVars>>

Merge ==
    /\ fnOp = "none"
    /\ \E D \in SUBSET Keys, U \in SUBSET Keys :
         \E tmplVars \in [D -> DefaultValues], userVars \in [U -> DefaultValues] :
           /\ fnOp' = "mergeVariables"
           /\ fnIn' = [tmplVars |-> tmplVars, userVars |-> userVars]
           /\ fnOut' = mergeVariables(tmplVars, userVars)
    /\ UNCHANGED <<genVars, valVars>>

NoBundle == [dir |-> FALSE, yaml |-> "ok", meta |-> NoTemplate, present |-> {}]

NoOptions == [ProjectName |-> <<"p">>, Language |-> "python",
              Framework |-> "fastapi", OutputDir |-> <<>>, Variables |-> <<>>]

InitPure ==
    /\ bundle = NoBundle
    /\ opts = NoOptions
    /\ InitCall
    /\ InitFn
    /\ NoValidate

NextFn ==
    \/ EvalCondition
    \/ ShouldGenerate
    \/ Merge

SpecFn == InitPure /\ [][NextFn]_vars

----------------------------------------------------------------------------
(* Properties of the pure functions, checked under SpecFn *)

\* C6: a FileSpec is included if and only if every one of its conditions
\* evaluates to true: an empty condition list always includes, and one false
\* condition excludes whatever the others are and whatever their order.
C6_IncludedIffAllConditions ==
    fnOp = "shouldGenerateFile" =>
        LET c == FnContext(fnIn.variables)
            all == \A i \in DOMAIN fnIn.conds : evaluateCondition(fnIn.conds[i], c)
        IN  /\ fnOut.result = all
            /\ fnOut.reversed = all
            /\ fnIn.conds = <<>> => fnOut.result

C6_Witness ==
    /\ fnOp = "shouldGenerateFile"
    /\ Len(fnIn.conds) = 2
    /\ evaluateCondition(fnIn.conds[1], FnContext(fnIn.variables))
    /\ ~evaluateCondition(fnIn.conds[2], FnContext(fnIn.variables))
    /\ ~fnOut.result
    /\ ~fnOut.reversed

\* C7: for every key and context the condition forms '{{ .K }}', '.K' and
\* 'K', with any whitespace around them and inside the braces, evaluate to
\* the same boolean.
C7_SurfaceFormsAgree ==
    fnOp = "evaluateCondition" =>
        /\ fnOut.braced = fnOut.dotted
        /\ fnOut.dotted = fnOut.bare

C7_Witness ==
    /\ fnOp = "evaluateCondition"
    /\ fnIn.key = CustomFlag
    /\ \A i \in 1..4 : fnIn.pads[i] # <<>>
    /\ fnOut.braced
    /\ fnOut.dotted
    /\ fnOut.bare

\* C8: the merged map holds the caller's value for every key the caller
\* supplied (declared or not, with or without a default), the default for
\* every other declared variable that has one, and nothing for a declared
\* variable without default that the caller did not supply.
C8_MergeOverrideWins ==
    fnOp = "mergeVariables" =>
        LET t == fnIn.tmplVars
            u == fnIn.userVars
        IN  /\ \A k \in DOMAIN u : k \in DOMAIN fnOut /\ fnOut[k] = u[k]
            /\ \A k \in DOMAIN t \ DOMAIN u :
                 IF t[k] # Nil
                 THEN k \in DOMAIN fnOut /\ fnOut[k] = t[k]
                 ELSE k \notin DOMAIN fnOut
            /\ DOMAIN fnOut \subseteq DOMAIN t \cup DOMAIN u

C8_Witness ==
    /\ fnOp = "mergeVariables"
    /\ IncludeDocker \in DOMAIN fnIn.tmplVars
    /\ fnIn.tmplVars[IncludeDocker] = BoolTrue
    /\ IncludeDocker \in DOMAIN fnIn.userVars
    /\ fnIn.userVars[IncludeDocker] = BoolFalse
    /\ CustomFlag \in DOMAIN fnIn.userVars \ DOMAIN fnIn.tmplVars
    /\ IncludeTests \in DOMAIN fnIn.tmplVars \ DOMAIN fnIn.userVars
    /\ fnIn.tmplVars[IncludeTests] = Nil
    /\ fnOut[IncludeDocker] = BoolFalse

----------------------------------------------------------------------------
(* Properties of Generate, checked under Spec *)

\* inclusion as the descriptor and the merged variables decide it
Included(fileSpec, c) ==
    \A i \in DOMAIN fileSpec.Conditions : evaluateCondition(fileSpec.Conditions[i], c)

\* the output paths of the included FileSpecs among the first n, in order
RECURSIVE IncludedPaths(_, _, _)
IncludedPaths(files, c, n) ==
    IF n = 0 THEN <<>>
    ELSE IF Included(files[n], c)
    THEN Append(IncludedPaths(files, c, n - 1), OutputPath(c.OutputDir, files[n]))
    ELSE IncludedPaths(files, c, n - 1)

Range(f) == {f[i] : i \in DOMAIN f}

IsWould(n) == n.kind \in {"Would render", "Would copy"}
IsCreated(n) == n.kind = "Created"
IsFileWrite(w) == w.op \in {"rendered", "copied"}

PathsOf(seq) == [i \in DOMAIN seq |-> seq[i].path]

MetadataPath == Join(ctx.OutputDir, MetadataName)

\* what the claims call an unloadable or invalid descriptor
Unloadable(b) ==
    \/ ~b.dir
    \/ b.yaml # "ok"
    \/ b.meta.Version = ""
    \/ b.meta.Name = ""
    \/ b.meta.Language = ""
    \/ \E i \in DOMAIN b.meta.Files : b.meta.Files[i].Source \notin b.present

\* C1: a Generate call with DryRun=true leaves the filesystem unchanged: no
\* output directory, no rendered or copied file and no metadata file, whether
\* it returns success or an error.
C1_DryRunLeavesFilesystem ==
    /\ (pc # "idle" /\ dryRun) => (fs = fsBefore /\ writes = <<>>)
    /\ \A i \in DOMAIN history : history[i].DryRun => history[i].writes = <<>>

C1_Witness ==
    /\ pc = "returned"
    /\ dryRun
    /\ err = NoErr
    /\ \E i \in DOMAIN notices : notices[i].kind = "Would render"
    /\ \E i \in DOMAIN notices : notices[i].kind = "Would copy"
    /\ DOMAIN fsBefore.files # {}
    /\ fs = fsBefore

C3_FirstFailureAborts ==
    /\ (pc = "files" /\ ~dryRun) =>
          /\ err = NoErr
          /\ PathsOf(SelectSeq(notices, IsCreated))
               = IncludedPaths(tmpl.Files, ctx, idx - 1)
    /\ (pc = "returned" /\ ~dryRun /\ err.msg = "failed to generate file") =>
          /\ idx \in DOMAIN tmpl.Files
          /\ Included(tmpl.Files[idx], ctx)
          /\ err.arg = tmpl.Files[idx].Destination
          /\ PathsOf(SelectSeq(notices, IsCreated))
               = IncludedPaths(tmpl.Files, ctx, idx - 1)
          /\ PathsOf(SelectSeq(writes, IsFileWrite))
               \in {IncludedPaths(tmpl.Files, ctx, idx - 1),
                    IncludedPaths(tmpl.Files, ctx, idx)}
          /\ \A p \in Range(IncludedPaths(tmpl.Files, ctx, idx - 1)) :
               p \in DOMAIN fs.files

C3_Witness ==
    /\ pc = "returned"
    /\ ~dryRun
    /\ err.msg = "failed to generate file"
    /\ idx = 2
    /\ Len(tmpl.Files) > idx - 1
    /\ Len(SelectSeq(notices, IsCreated)) = 1
    /\ notices[1].path \in DOMAIN fs.files

\* C4: in a real Generate the metadata file is written only after every
\* included FileSpec has been generated, as the last write of the call; a
\* call that fails on loading, on directory creation or on a file never
\* writes it.
C4_MetadataWrittenLast ==
    (pc # "idle" /\ ~dryRun) =>
        LET meta == {i \in DOMAIN writes : writes[i].op = "meta"}
        IN  /\ meta # {} =>
                 /\ pc = "returned"
                 /\ meta = {Len(writes)}
                 /\ PathsOf(SelectSeq(notices, IsCreated))
                      = IncludedPaths(tmpl.Files, ctx, Len(tmpl.Files))
            /\ err.msg \in {"failed to load template",
                            "failed to create project directory",
                            "failed to generate file"} => meta = {}

C4_Witness ==
    /\ pc = "returned"
    /\ ~dryRun
    /\ err = NoErr
    /\ Len(SelectSeq(writes, IsFileWrite)) = 2
    /\ writes[Len(writes)].op = "meta"

MergedAsClaimed ==
    LET declared == bundle.meta.Variables
        supplied == opts.Variables
    IN  [k \in DOMAIN supplied \cup {d \in DOMAIN declared : declared[d] # Nil} |->
            IF k \in DOMAIN supplied THEN supplied[k] ELSE declared[k]]

\* C9: after a successful real Generate into an empty output directory the
\* files present are exactly the output paths of the included FileSpecs plus
\* the metadata file; an excluded FileSpec leaves no file.
C9_ExactlyIncludedFilesPlusMetadata ==
    (pc = "returned" /\ ~dryRun /\ err = NoErr /\ fsBefore = EmptyFS) =>
        LET c == NewContext(opts.ProjectName, ctx.OutputDir, MergedAsClaimed, bundle.meta)
            included == {i \in DOMAIN bundle.meta.Files : Included(bundle.meta.Files[i], c)}
        IN  /\ DOMAIN fs.files
                 = {OutputPath(ctx.OutputDir, bundle.meta.Files[i]) : i \in included}
                   \cup {MetadataPath}
            /\ \A i \in included :
                 fs.files[OutputPath(ctx.OutputDir, bundle.meta.Files[i])].kind
                    \in {"rendered", "copied"}
            /\ fs.files[MetadataPath].kind = "meta"

\* one always-included renderable file and one static file whose condition
\* is false: one output file plus the metadata file
C9_Witness ==
    /\ pc = "returned"
    /\ ~dryRun
    /\ err = NoErr
    /\ fsBefore = EmptyFS
    /\ Len(tmpl.Files) = 2
    /\ ShouldRender(tmpl.Files[1].Source)
    /\ tmpl.Files[1].Conditions = <<>>
    /\ ~ShouldRender(tmpl.Files[2].Source)
    /\ ~Included(tmpl.Files[2], ctx)
    /\ Cardinality(DOMAIN fs.files) = 2
    /\ MetadataPath \in DOMAIN fs.files

\* C10: the metadata file of a successful real Generate lists every key of
\* the merged variable map exactly once, with its final merged value (the
\* override where one was supplied, else the default), and no other key.
C10_MetadataListsMergedVariables ==
    (pc = "returned" /\ ~dryRun /\ err = NoErr) =>
        LET lines == fs.files[MetadataPath].body.variables
            merged == MergedAsClaimed
        IN  /\ \A k \in DOMAIN merged :
                 /\ Cardinality({i \in DOMAIN lines : lines[i][1] = k}) = 1
                 /\ \A i \in DOMAIN lines :
                      lines[i][1] = k => lines[i][2] = Format(merged[k])
            /\ \A i \in DOMAIN lines : lines[i][1] \in DOMAIN merged

C10_Witness ==
    /\ pc = "returned"
    /\ ~dryRun
    /\ err = NoErr
    /\ bundle.meta.Variables[IncludeDocker] = BoolTrue
    /\ bundle.meta.Variables[CustomFlag] = BoolTrue
    /\ DOMAIN opts.Variables = {IncludeDocker}
    /\ opts.Variables[IncludeDocker] = BoolFalse
    /\ fs.files[MetadataPath].body.variables
         = <<<<CustomFlag, "true">>, <<IncludeDocker, "false">>>>

----------------------------------------------------------------------------
(* Specification of Generate over descriptors whose destinations leave the *)
(* output directory                                                         *)

EscapingDest == <<".", ".", "/", "x">>
AbsoluteDest == <<"/", "e", "/", "x">>
NestedEscapingDest == <<"s", "/", ".", ".", "/", ".", ".", "/", "m", ".", "t", "m", "p", "l">>

TraversalFileSpecs ==
    {FileSpec(Dockerfile, EscapingDest, <<>>),
     FileSpec(Dockerfile, AbsoluteDest, <<>>),
     FileSpec(MainTmpl, NestedEscapingDest, <<>>),
     FileSpec(Dockerfile, Dockerfile, <<>>)}

TraversalBundles ==
    [dir : {TRUE}, yaml : {"ok"},
     meta : [Version : {"1.0"}, Name : {"api"}, Language : {"python"},
             Framework : {"fastapi"}, Variables : Declarations,
             Files : UNION {[1..n -> TraversalFileSpecs] : n \in 0..MaxFiles}],
     present : {Sources}]

InitPaths ==
    /\ bundle \in TraversalBundles
    /\ opts \in Options
    /\ InitCall
    /\ InitFn
    /\ NoValidate

SpecPaths == InitPaths /\ [][Next]_vars

\* p lies in the directory dir or below it
Inside(dir, p) ==
    LET d == Segs(dir)
        q == Segs(p)
    IN  /\ HasPrefix(p, <<Slash>>) = HasPrefix(dir, <<Slash>>)
        /\ Len(q) >= Len(d)
        /\ SubSeq(q, 1, Len(d)) = d

\* C11: every file Generate writes (rendered, copied or metadata) lies inside
\* the output directory, also when a FileSpec destination contains '..'
\* segments or is an absolute path.
C11_WritesStayInsideOutputDir ==
    \A i \in DOMAIN writes :
        writes[i].op \in {"rendered", "copied", "meta"}
            => Inside(ctx.OutputDir, writes[i].path)

----------------------------------------------------------------------------
(* Version constraints: parseVersion, compareVersionParts, CompareVersion *)

MaxParts == 4

DigitValue ==
    [c \in {"0", "1", "2", "3", "4", "5", "6", "7", "8", "9"} |->
        CASE c = "0" -> 0 [] c = "1" -> 1 [] c = "2" -> 2 [] c = "3" -> 3
          [] c = "4" -> 4 [] c = "5" -> 5 [] c = "6" -> 6 [] c = "7" -> 7
          [] c = "8" -> 8 [] c = "9" -> 9]

RECURSIVE DecimalValue(_)
DecimalValue(digits) ==
    IF digits = <<>> THEN 0
    ELSE 10 * DecimalValue(SubSeq(digits, 1, Len(digits) - 1))
            + DigitValue[digits[Len(digits)]]

\* strconv.Atoi: an optional sign followed by at least one decimal digit
Atoi(s) ==
    LET signed == s # <<>> /\ s[1] \in {"+", "-"}
        digits == IF signed THEN Tail(s) ELSE s
        ok == /\ digits # <<>>
              /\ \A i \in DOMAIN digits : digits[i] \in DOMAIN DigitValue
    IN  IF ~ok THEN [ok |-> FALSE, n |-> 0]
        ELSE [ok |-> TRUE,
              n |-> IF signed /\ s[1] = "-" THEN 0 - DecimalValue(digits)
                    ELSE DecimalValue(digits)]

\* strings.Split(s, "."): the parts between the dots, one more than the dots
RECURSIVE SplitDots(_, _)
SplitDots(s, cur) ==
    IF s = <<>> THEN <<cur>>
    ELSE IF Head(s) = "." THEN <<cur>> \o SplitDots(Tail(s), <<>>)
    ELSE SplitDots(Tail(s), Append(cur, Head(s)))

VersionWidth == 3

parseVersion(version) ==
    LET parts == SplitDots(TrimPrefix(version, <<"v">>), <<>>)
        bad == {i \in 1..VersionWidth : i <= Len(parts) /\ ~Atoi(parts[i]).ok}
    IN  IF bad # {}
        THEN [err |-> Error("invalid version component",
                            parts[CHOOSE i \in bad : \A j \in bad : i <= j]),
              v |-> <<0, 0, 0>>]
        ELSE [err |-> NoErr,
              v |-> [i \in 1..VersionWidth |->
                        IF i <= Len(parts) THEN Atoi(parts[i]).n ELSE 0]]

compareVersionParts_majorOnly(v1, v2) ==
    IF v1[1] < v2[1] THEN -1 ELSE IF v1[1] > v2[1] THEN 1 ELSE 0

compareVersionParts(v1, v2) ==
    LET diff == {i \in 1..VersionWidth : v1[i] # v2[i]}
    IN  IF diff = {} THEN 0
        ELSE LET i == CHOOSE k \in diff : \A j \in diff : k <= j
             IN  IF v1[i] < v2[i] THEN -1 ELSE 1

\* the operator prefix tests of CompareVersion, in the order of the code
Operators == <<<<">", "=">>, <<"<", "=">>, <<">">>, <<"<">>, <<"=">>, <<"^">>, <<"~">>>>

SplitRequirement(requirement) ==
    LET req == TrimSpace(requirement)
        hits == {i \in DOMAIN Operators : HasPrefix(req, Operators[i])}
    IN  IF hits = {} THEN [operator |-> <<"=">>, requiredVersion |-> req]
        ELSE LET op == Operators[CHOOSE i \in hits : \A j \in hits : i <= j]
             IN  [operator |-> op,
                  requiredVersion |-> TrimSpace(SubSeq(req, Len(op) + 1, Len(req)))]

Decide_caretAnyMajor(operator, comparison, cur, req) ==
    CASE operator = <<">", "=">> -> [ok |-> comparison >= 0, err |-> NoErr]
      [] operator = <<">">> -> [ok |-> comparison > 0, err |-> NoErr]
      [] operator = <<"<", "=">> -> [ok |-> comparison <= 0, err |-> NoErr]
      [] operator = <<"<">> -> [ok |-> comparison < 0, err |-> NoErr]
      [] operator = <<"=">> -> [ok |-> comparison = 0, err |-> NoErr]
      [] operator = <<"^">> -> [ok |-> comparison >= 0, err |-> NoErr]
      [] operator = <<"~">> ->
            IF comparison < 0 THEN [ok |-> FALSE, err |-> NoErr]
            ELSE [ok |-> cur[1] = req[1] /\ cur[2] = req[2], err |-> NoErr]
      [] OTHER -> [ok |-> FALSE, err |-> Error("unknown operator", operator)]

Decide_tildeAnyMinor(operator, comparison, cur, req) ==
    CASE operator = <<">", "=">> -> [ok |-> comparison >= 0, err |-> NoErr]
      [] operator = <<">">> -> [ok |-> comparison > 0, err |-> NoErr]
      [] operator = <<"<", "=">> -> [ok |-> comparison <= 0, err |-> NoErr]
      [] operator = <<"<">> -> [ok |-> comparison < 0, err |-> NoErr]
      [] operator = <<"=">> -> [ok |-> comparison = 0, err |-> NoErr]
      [] operator = <<"^">> ->
            IF comparison < 0 THEN [ok |-> FALSE, err |-> NoErr]
            ELSE [ok |-> cur[1] = req[1], err |-> NoErr]
      [] operator = <<"~">> ->
            IF comparison < 0 THEN [ok |-> FALSE, err |-> NoErr]
            ELSE [ok |-> cur[1] = req[1], err |-> NoErr]
      [] OTHER -> [ok |-> FALSE, err |-> Error("unknown operator", operator)]

\* the switch on the operator at the end of CompareVersion
Decide(operator, comparison, cur, req) ==
    CASE operator = <<">", "=">> -> [ok |-> comparison >= 0, err |-> NoErr]
      [] operator = <<">">> -> [ok |-> comparison > 0, err |-> NoErr]
      [] operator = <<"<", "=">> -> [ok |-> comparison <= 0, err |-> NoErr]
      [] operator = <<"<">> -> [ok |-> comparison < 0, err |-> NoErr]
      [] operator = <<"=">> -> [ok |-> comparison = 0, err |-> NoErr]
      [] operator = <<"^">> ->
            IF comparison < 0 THEN [ok |-> FALSE, err |-> NoErr]
            ELSE [ok |-> cur[1] = req[1], err |-> NoErr]
      [] operator = <<"~">> ->
            IF comparison < 0 THEN [ok |-> FALSE, err |-> NoErr]
            ELSE [ok |-> cur[1] = req[1] /\ cur[2] = req[2], err |-> NoErr]
      [] OTHER -> [ok |-> FALSE, err |-> Error("unknown operator", operator)]

CompareVersion(current, requirement) ==
    LET r == SplitRequirement(requirement)
        currentParts == parseVersion(current)
        requiredParts == parseVersion(r.requiredVersion)
    IN  IF currentParts.err # NoErr
        THEN [ok |-> FALSE, err |-> Error("invalid current version", current)]
        ELSE IF requiredParts.err # NoErr
        THEN [ok |-> FALSE,
              err |-> Error("invalid required version", r.requiredVersion)]
        ELSE Decide(r.operator,
                    compareVersionParts(currentParts.v, requiredParts.v),
                    currentParts.v, requiredParts.v)

----------------------------------------------------------------------------
(* Specification of the version functions applied to bounded inputs *)

Numbers == {1, 2, 10}

RECURSIVE FormatInt(_)
FormatInt(n) ==
    LET digit == CHOOSE c \in DOMAIN DigitValue : DigitValue[c] = n % 10
    IN  IF n < 10 THEN <<digit>> ELSE Append(FormatInt(n \div 10), digit)

RECURSIVE JoinDots(_)
JoinDots(parts) ==
    IF parts = <<>> THEN <<>>
    ELSE IF Len(parts) = 1 THEN parts[1]
    ELSE parts[1] \o Dot \o JoinDots(Tail(parts))

VersionNumbers == UNION {[1..n -> Numbers] : n \in 1..VersionWidth}

FormatVersion(nums, v) ==
    (IF v THEN <<"v">> ELSE <<>>) \o JoinDots([i \in DOMAIN nums |-> FormatInt(nums[i])])

Padded(nums) == [i \in 1..VersionWidth |-> IF i <= Len(nums) THEN nums[i] ELSE 0]

OperatorInputs == {<<>>} \cup {Operators[i] : i \in DOMAIN Operators}

Components == {<<"1">>, <<"2">>, <<"1", "0">>, <<"x">>}

Malformed == {<<"x">>, <<"1", ".", "x">>, <<"1", ".", "2", ".", "x">>, <<>>}

CompareVersions ==
    /\ fnOp = "none"
    /\ \E c \in VersionNumbers, r \in VersionNumbers, cv \in BOOLEAN, rv \in BOOLEAN,
          op \in OperatorInputs, pad \in Pads :
         LET current == FormatVersion(c, cv)
             requirement == op \o pad \o FormatVersion(r, rv)
         IN  /\ fnOp' = "CompareVersion"
             /\ fnIn' = [c |-> Padded(c), r |-> Padded(r), op |-> op,
                         current |-> current, requirement |-> requirement]
             /\ fnOut' = CompareVersion(current, requirement)
    /\ UNCHANGED <<genVars, valVars>>

CompareMalformed ==
    /\ fnOp = "none"
    /\ \E c \in VersionNumbers, bad \in Malformed, op \in OperatorInputs,
          side \in {"current", "required", "both"} :
         LET good == FormatVersion(c, FALSE)
             current == IF side = "required" THEN good ELSE bad
             requirement == op \o (IF side = "current" THEN good ELSE bad)
         IN  /\ fnOp' = "CompareVersion malformed"
             /\ fnIn' = [side |-> side, op |-> op,
                         current |-> current, requirement |-> requirement]
             /\ fnOut' = CompareVersion(current, requirement)
    /\ UNCHANGED <<genVars, valVars>>

ParseVersion ==
    /\ fnOp = "none"
    /\ \E n \in 1..MaxParts, v \in BOOLEAN :
         \E parts \in [1..n -> Components] :
           LET version == (IF v THEN <<"v">> ELSE <<>>) \o JoinDots(parts)
           IN  /\ fnOp' = "parseVersion"
               /\ fnIn' = [parts |-> parts, v |-> v, version |-> version]
               /\ fnOut' = parseVersion(version)
    /\ UNCHANGED <<genVars, valVars>>

NextVer ==
    \/ CompareVersions
    \/ CompareMalformed
    \/ ParseVersion

SpecVer == InitPure /\ [][NextVer]_vars

----------------------------------------------------------------------------
(* Properties of the version functions, checked under SpecVer *)

\* a is before b in the lexicographic order of (major, minor, patch)
LexLess(a, b) ==
    \E i \in 1..3 : a[i] < b[i] /\ \A j \in 1..(i - 1) : a[j] = b[j]

\* C17: for parseable versions c and r and an operator among =, >, >=, <, <=,
\* CompareVersion succeeds and is true exactly when the lexicographic
\* three-way comparison of c against r is in the relation the operator names;
\* a constraint without operator is decided as with '='.
C17_RelationalOperators ==
    (fnOp = "CompareVersion" /\ fnIn.op \notin {<<"^">>, <<"~">>}) =>
        LET c == fnIn.c
            r == fnIn.r
            expected ==
                CASE fnIn.op \in {<<>>, <<"=">>} -> c = r
                  [] fnIn.op = <<">">> -> LexLess(r, c)
                  [] fnIn.op = <<">", "=">> -> ~LexLess(c, r)
                  [] fnIn.op = <<"<">> -> LexLess(c, r)
                  [] fnIn.op = <<"<", "=">> -> ~LexLess(r, c)
        IN  fnOut.err = NoErr /\ fnOut.ok = expected

C17_Witness ==
    /\ fnOp = "CompareVersion"
    /\ fnIn.op = <<">">>
    /\ fnIn.current = <<"1", ".", "1", "0">>
    /\ fnIn.requirement = <<">", " ", "v", "1", ".", "2", ".", "1">>
    /\ fnOut.ok

\* C18: for parseable versions c and r, CompareVersion(c, '^' r) is true if and
\* only if c >= r and c has the major component of r: false for every higher
\* major, true for every higher minor, or equal minor and higher patch, within
\* the same major.
C18_CaretSameMajor ==
    (fnOp = "CompareVersion" /\ fnIn.op = <<"^">>) =>
        LET c == fnIn.c
            r == fnIn.r
        IN  /\ fnOut.err = NoErr
            /\ fnOut.ok = (~LexLess(c, r) /\ c[1] = r[1])
            /\ c[1] > r[1] => ~fnOut.ok
            /\ (c[1] = r[1] /\ (c[2] > r[2] \/ (c[2] = r[2] /\ c[3] > r[3])))
                  => fnOut.ok

C18_Witness ==
    /\ fnOp = "CompareVersion"
    /\ fnIn.op = <<"^">>
    /\ fnIn.c = <<2, 1, 1>>
    /\ fnIn.r = <<1, 10, 2>>
    /\ ~fnOut.ok

\* C19: for parseable versions c and r, CompareVersion(c, '~' r) is true if and
\* only if c >= r and c has the major and the minor component of r.
C19_TildeSameMinor ==
    (fnOp = "CompareVersion" /\ fnIn.op = <<"~">>) =>
        LET c == fnIn.c
            r == fnIn.r
        IN  /\ fnOut.err = NoErr
            /\ fnOut.ok = (~LexLess(c, r) /\ c[1] = r[1] /\ c[2] = r[2])

C19_Witness ==
    /\ fnOp = "CompareVersion"
    /\ fnIn.op = <<"~">>
    /\ fnIn.c = <<1, 10, 1>>
    /\ fnIn.r = <<1, 2, 1>>
    /\ ~fnOut.ok

\* C20: parseVersion fails whenever any dot-separated component of the version
\* string is non-numeric, whatever its position, and CompareVersion returns an
\* error whenever the current or the required version fails to parse.
C20_AnyNonNumericComponentFails ==
    /\ fnOp = "parseVersion" =>
          ((\E i \in DOMAIN fnIn.parts : fnIn.parts[i] = <<"x">>)
              => fnOut.err # NoErr)
    /\ fnOp = "CompareVersion malformed" => fnOut.err # NoErr

----------------------------------------------------------------------------
(* SystemValidator.Validate *)

MaxReqs == 2

\* CheckCommand: LookPath, then the version the command reports ("" if none);
\* its error result is always nil
CheckCommand(inst, cmd) == inst[cmd]

\* ValidationError; Req is the position of the requirement in reqs
ValidationError(i, req, message) ==
    [Req |-> i, Command |-> req.Command, Message |-> message]

AddTo_both(res, field, e) ==
    [Errors |-> Append(res.Errors, e), Warnings |-> Append(res.Warnings, e)]

AddTo(res, field, e) == [res EXCEPT ![field] = Append(@, e)]

NotFoundField_byLevel(lvl, req) ==
    IF lvl = ValidationStrict THEN "Errors" ELSE "Warnings"

NotFoundField(lvl, req) == IF req.Required THEN "Errors" ELSE "Warnings"

CompareErrorField_always(lvl, req) == "Errors"

CompareErrorField(lvl, req) ==
    IF lvl = ValidationStrict THEN "Errors" ELSE "Warnings"

MismatchField_byRequired(lvl, req) ==
    IF req.Required THEN "Errors" ELSE "Warnings"

MismatchField(lvl, req) ==
    IF lvl = ValidationStrict THEN "Errors" ELSE "Warnings"

\* one iteration of the loop of Validate
CheckRequirement(lvl, inst, res, i, req) ==
    LET chk == CheckCommand(inst, req.Command)
    IN  IF ~chk.exists
        THEN AddTo(res, NotFoundField(lvl, req), ValidationError(i, req, "not found"))
        ELSE IF req.Version # <<>> /\ chk.version # <<>>
        THEN LET cmp == CompareVersion(chk.version, req.Version)
             IN  IF cmp.err # NoErr
                 THEN AddTo(res, CompareErrorField(lvl, req),
                            ValidationError(i, req, "error comparing version"))
                 ELSE IF ~cmp.ok
                 THEN AddTo(res, MismatchField(lvl, req),
                            ValidationError(i, req, "version does not match requirement"))
                 ELSE res
        ELSE res

ValidateStart ==
    /\ vpc = "idle"
    /\ result' = EmptyResult
    /\ reqIdx' = 1
    /\ probed' = {}
    /\ vpc' = "loop"
    /\ UNCHANGED <<genVars, fnVars, level, reqs, installed, scope>>

ValidateRequirement ==
    /\ vpc = "loop"
    /\ reqIdx <= Len(reqs)
    /\ probed' = probed \cup {reqIdx}
    /\ result' = CheckRequirement(level, installed, result, reqIdx, reqs[reqIdx])
    /\ reqIdx' = reqIdx + 1
    /\ UNCHANGED <<genVars, fnVars, level, reqs, installed, scope, vpc>>

ValidateReturn ==
    /\ vpc = "loop"
    /\ reqIdx > Len(reqs)
    /\ vpc' = "done"
    /\ UNCHANGED <<genVars, fnVars, level, reqs, installed, scope, reqIdx,
                   probed, result>>

AtLeast == <<">", "=", "1", ".", "2", ".", "0">>
MalformedConstraint == <<">", "=", "x">>
WhenDocker == Braced(IncludeDocker, <<>>, <<" ">>, <<" ">>, <<>>)

Requirement(command, version, required, when) ==
    [Command |-> command, Version |-> version, Required |-> required, When |-> when]

Requirements ==
    {Requirement("go", v, r, <<>>) :
        v \in {<<>>, AtLeast, MalformedConstraint}, r \in BOOLEAN}
    \cup {Requirement("docker", v, r, WhenDocker) : v \in {<<>>, AtLeast}, r \in BOOLEAN}

Installations ==
    {inst \in [Commands -> [exists : BOOLEAN,
                            version : {<<>>, <<"1", ".", "2", ".", "3">>,
                                       <<"1", ".", "0", ".", "0">>}]] :
        /\ \A c \in Commands : ~inst[c].exists => inst[c].version = <<>>
        /\ inst["docker"].version \in {<<>>, <<"1", ".", "0", ".", "0">>}
        /\ inst["docker"].exists => inst["docker"].version # <<>>}

Scopes == {<<>>, [k \in {IncludeDocker} |-> BoolTrue]}

InitVal ==
    /\ bundle = NoBundle
    /\ opts = NoOptions
    /\ InitCall
    /\ InitFn
    /\ level \in Levels
    /\ reqs \in UNION {[1..n -> Requirements] : n \in 0..MaxReqs}
    /\ installed \in Installations
    /\ scope \in Scopes
    /\ reqIdx = 1
    /\ probed = {}
    /\ result = EmptyResult
    /\ vpc = "idle"

NextVal ==
    \/ ValidateStart
    \/ ValidateRequirement
    \/ ValidateReturn

SpecVal == InitVal /\ [][NextVal]_vars

----------------------------------------------------------------------------
(* Properties of Validate, checked under SpecVal *)

\* the entries of one field of the result that belong to requirement i
EntriesFor(field, i) == {k \in DOMAIN result[field] : result[field][k].Req = i}

Checked == 1..(reqIdx - 1)

Reported(i) == installed[reqs[i].Command]

\* the enabling condition of requirement i is declared and evaluates to false
WhenFalse(i) ==
    /\ reqs[i].When # <<>>
    /\ ~evaluateCondition(reqs[i].When, FnContext(scope))

Mismatch(i) ==
    /\ Reported(i).exists
    /\ Reported(i).version # <<>>
    /\ reqs[i].Version # <<>>
    /\ CompareVersion(Reported(i).version, reqs[i].Version) = [ok |-> FALSE, err |-> NoErr]

C14_WhenFalseSkipped ==
    vpc # "idle" =>
        \A i \in Checked :
            WhenFalse(i) =>
                /\ i \notin probed
                /\ EntriesFor("Errors", i) = {}
                /\ EntriesFor("Warnings", i) = {}

MalformedDeclared(i) ==
    /\ Reported(i).exists
    /\ Reported(i).version # <<>>
    /\ reqs[i].Version # <<>>
    /\ parseVersion(SplitRequirement(reqs[i].Version).requiredVersion).err # NoErr

\* C15 as stated: a declared constraint that fails to parse, for an installed
\* command that reports a version, puts the requirement in Errors and not in
\* Warnings at every validation level.
C15_Original_MalformedAlwaysError ==
    vpc # "idle" =>
        \A i \in Checked :
            MalformedDeclared(i) =>
                /\ Cardinality(EntriesFor("Errors", i)) = 1
                /\ EntriesFor("Warnings", i) = {}

\* C15: a declared constraint that fails to parse, for an installed command
\* that reports a version, gives the requirement exactly one entry: in Errors
\* when the level is ValidationStrict, in Warnings at every other level.
C15_MalformedSeverityByLevel ==
    vpc # "idle" =>
        \A i \in Checked :
            MalformedDeclared(i) =>
                /\ Cardinality(EntriesFor("Errors", i)) = (IF level = ValidationStrict THEN 1 ELSE 0)
                /\ Cardinality(EntriesFor("Warnings", i)) = (IF level = ValidationStrict THEN 0 ELSE 1)

C15_Witness ==
    /\ vpc = "done"
    /\ level = ValidationBasic
    /\ Len(reqs) = 1
    /\ MalformedDeclared(1) /\ reqs[1].Required
    /\ result.Errors = <<>>
    /\ Len(result.Warnings) = 1
    /\ result.Warnings[1].Message = "error comparing version"

\* C16: at level ValidationNone Validate skips all validation: the result has
\* no errors and no warnings whatever the requirements are, required commands
\* that are not installed included.
C16_NoneSkipsAll ==
    (vpc # "idle" /\ level = ValidationNone) => result = EmptyResult

----------------------------------------------------------------------------
(* ValidateProjectName *)

MaxName == 4

LowerLetters ==
    {"a", "b", "c", "d", "e", "f", "g", "h", "i", "j", "k", "l", "m", "n", "o",
     "p", "q", "r", "s", "t", "u", "v", "w", "x", "y", "z"}

\* projectNamePattern: ^[a-z][a-z0-9-]*$
MatchProjectNamePattern(name) ==
    /\ name # <<>>
    /\ name[1] \in LowerLetters
    /\ \A i \in 2..Len(name) :
          name[i] \in LowerLetters \cup DOMAIN DigitValue \cup {"-"}

\* os.Stat(name) returns a nil error
StatOk(fsys, name) == name \in fsys.dirs \/ name \in DOMAIN fsys.files

ValidateProjectName_patternFirst(fsys, name) ==
    IF name = <<>> THEN "project name cannot be empty"
    ELSE IF name = Dot \/ name = DotDot
    THEN "invalid project name: '.' and '..' are not allowed"
    ELSE IF ~MatchProjectNamePattern(name)
    THEN "invalid project name: must start with lowercase letter and contain only lowercase letters, numbers, and hyphens"
    ELSE IF \E i \in DOMAIN name : name[i] \in {"/", "\\"}
    THEN "invalid project name: path separators are not allowed"
    ELSE IF StatOk(fsys, name) THEN "directory already exists"
    ELSE ""

ValidateProjectName(fsys, name) ==
    IF name = <<>> THEN "project name cannot be empty"
    ELSE IF name = Dot \/ name = DotDot
    THEN "invalid project name: '.' and '..' are not allowed"
    ELSE IF \E i \in DOMAIN name : name[i] \in {"/", "\\"}
    THEN "invalid project name: path separators are not allowed"
    ELSE IF ~MatchProjectNamePattern(name)
    THEN "invalid project name: must start with lowercase letter and contain only lowercase letters, numbers, and hyphens"
    ELSE IF StatOk(fsys, name) THEN "directory already exists"
    ELSE ""

NameChars == {"p", "M", "1", "-", "_", "/", "\\", "."}

Names == UNION {[1..n -> NameChars] : n \in 0..MaxName}

ExistingEntries ==
    {EmptyFS,
     [dirs |-> {<<"p">>}, files |-> <<>>],
     [dirs |-> {}, files |-> Put(<<>>, <<"p", "-", "1">>, Copied(Dockerfile))]}

ValidateName ==
    /\ fnOp = "none"
    /\ \E name \in Names :
         /\ fnOp' = "ValidateProjectName"
         /\ fnIn' = [name |-> name]
         /\ fnOut' = [err |-> ValidateProjectName(fs, name)]
    /\ UNCHANGED <<genVars, valVars>>

InitName ==
    /\ bundle = NoBundle
    /\ opts = NoOptions
    /\ fs \in ExistingEntries
    /\ pc = "idle"
    /\ dryRun = FALSE
    /\ tmpl = NoTemplate
    /\ ctx = NoContext
    /\ idx = 1
    /\ notices = <<>>
    /\ writes = <<>>
    /\ err = NoErr
    /\ fsBefore = fs
    /\ history = <<>>
    /\ InitFn
    /\ NoValidate

NextName == ValidateName

SpecName == InitName /\ [][NextName]_vars

----------------------------------------------------------------------------
(* Properties of ValidateProjectName, checked under SpecName *)

Mentions(message, words) ==
    CASE words = "empty" -> message = "project name cannot be empty"
      [] words = "dots" -> message = "invalid project name: '.' and '..' are not allowed"
      [] words = "separator" -> message = "invalid project name: path separators are not allowed"
      [] words = "pattern" -> message = "invalid project name: must start with lowercase letter and contain only lowercase letters, numbers, and hyphens"
      [] words = "exists" -> message = "directory already exists"

HasSeparator(name) == \E i \in DOMAIN name : name[i] = "/" \/ name[i] = "\\"

\* C21: ValidateProjectName succeeds exactly for the names that match
\* ^[a-z][a-z0-9-]*$ and name no existing filesystem entry; any other name
\* fails with the message of the first rule it breaks, in the order empty,
\* '.' or '..', path separator, pattern, already exists.
C21_FirstViolatedRuleReported ==
    fnOp = "ValidateProjectName" =>
        LET name == fnIn.name
            msg == fnOut.err
        IN  /\ (msg = "") = (MatchProjectNamePattern(name) /\ ~StatOk(fs, name))
            /\ name = <<>> => Mentions(msg, "empty")
            /\ name \in {<<".">>, <<".", ".">>} => Mentions(msg, "dots")
            /\ (HasSeparator(name) /\ Len(name) > 0) => Mentions(msg, "separator")
            /\ (name # <<>> /\ name \notin {<<".">>, <<".", ".">>} /\ ~HasSeparator(name)
                  /\ ~MatchProjectNamePattern(name)) => Mentions(msg, "pattern")
            /\ (MatchProjectNamePattern(name) /\ StatOk(fs, name)) => Mentions(msg, "exists")

C21_Witness ==
    /\ fnOp = "ValidateProjectName"
    /\ fnIn.name = <<".", ".", "/", "p">>
    /\ Mentions(fnOut.err, "separator")

----------------------------------------------------------------------------
(* Specification of the 'new' command: runNewCommand builds the Options from *)
(* its arguments and flags and calls Generate                                *)

CliNames == {<<"p">>, <<"P">>, <<"p", "/", "q">>, <<"p", "_", "1">>}

CliVariables == [{IncludeDocker, IncludeTests} -> {BoolTrue, BoolFalse}]

CliOptions ==
    [ProjectName : CliNames, Language : {"python"}, Framework : {"fastapi"},
     OutputDir : {<<>>}, Variables : CliVariables]

CliBundles ==
    [dir : {TRUE}, yaml : {"ok"},
     meta : [Version : {"1.0"}, Name : {"api"}, Language : {"python"},
             Framework : {"fastapi"}, Variables : {<<>>},
             Files : UNION {[1..n -> {FileSpec(Dockerfile, Dockerfile, <<>>)}] : n \in 0..1}],
     present : {Sources}]

InitCli ==
    /\ bundle \in CliBundles
    /\ opts \in CliOptions
    /\ fs \in {EmptyFS, [dirs |-> {<<"p">>}, files |-> <<>>]}
    /\ pc = "idle"
    /\ dryRun = FALSE
    /\ tmpl = NoTemplate
    /\ ctx = NoContext
    /\ idx = 1
    /\ notices = <<>>
    /\ writes = <<>>
    /\ err = NoErr
    /\ fsBefore = fs
    /\ history = <<>>
    /\ InitFn
    /\ NoValidate

SpecCli == InitCli /\ [][Next]_vars

\* C22: in the 'new' command Generate is reached only with a project name
\* that passes ValidateProjectName against the filesystem of the invocation:
\* non-empty, not '.' or '..', without path separator, matching the pattern
\* and not naming an existing entry.
C22_GenerateOnlyWithValidName ==
    pc # "idle" => ValidateProjectName(fsBefore, opts.ProjectName) = ""

----------------------------------------------------------------------------
(* Casing transforms of the template function map *)

MaxWord == 4

Lowers == <<"a", "b", "c", "d", "e", "f", "g", "h", "i", "j", "k", "l", "m", "n", "o", "p", "q", "r", "s", "t", "u", "v", "w", "x", "y", "z">>
Uppers == <<"A", "B", "C", "D", "E", "F", "G", "H", "I", "J", "K", "L", "M", "N", "O", "P", "Q", "R", "S", "T", "U", "V", "W", "X", "Y", "Z">>

IsUpper(c) == \E i \in DOMAIN Uppers : Uppers[i] = c

ToLowerRune(c) ==
    IF IsUpper(c) THEN Lowers[CHOOSE i \in DOMAIN Uppers : Uppers[i] = c] ELSE c

ToUpperRune(c) ==
    IF \E i \in DOMAIN Lowers : Lowers[i] = c
    THEN Uppers[CHOOSE i \in DOMAIN Lowers : Lowers[i] = c]
    ELSE c

ToLower(s) == [i \in DOMAIN s |-> ToLowerRune(s[i])]

ReplaceAll(s, old, new) == [i \in DOMAIN s |-> IF s[i] = old THEN new ELSE s[i]]

\* regexp `c+` replaced by one c
RECURSIVE Collapse(_, _)
Collapse(s, c) ==
    IF Len(s) < 2 THEN s
    ELSE IF s[1] = c /\ s[2] = c THEN Collapse(Tail(s), c)
    ELSE <<s[1]>> \o Collapse(Tail(s), c)

\* the loop of toSnakeCase and toKebabCase: sep before each uppercase rune
\* that is not the first, every rune lowercased
RECURSIVE SeparateUpper(_, _, _)
SeparateUpper(s, sep, first) ==
    IF s = <<>> THEN <<>>
    ELSE (IF IsUpper(Head(s)) /\ ~first THEN <<sep>> ELSE <<>>)
         \o <<ToLowerRune(Head(s))>> \o SeparateUpper(Tail(s), sep, FALSE)

toSnakeCase(s) == Collapse(SeparateUpper(ReplaceAll(s, "-", "_"), "_", TRUE), "_")

toKebabCase(s) == Collapse(SeparateUpper(ReplaceAll(s, "_", "-"), "-", TRUE), "-")

capitalize(s) == IF s = <<>> THEN <<>> ELSE <<ToUpperRune(s[1])>> \o Tail(s)

\* the characters of the class [-_\s]
WordSeparators == {"-", "_", " ", "\t", "\n", "\f", "\r"}

\* regexp.MustCompile(`[-_\s]+`).Split(s, -1)
RECURSIVE SplitWords(_, _, _)
SplitWords(s, cur, inRun) ==
    IF s = <<>> THEN <<cur>>
    ELSE IF Head(s) \in WordSeparators
    THEN IF inRun THEN SplitWords(Tail(s), cur, TRUE)
         ELSE <<cur>> \o SplitWords(Tail(s), <<>>, TRUE)
    ELSE SplitWords(Tail(s), Append(cur, Head(s)), FALSE)

RECURSIVE Concat(_)
Concat(parts) == IF parts = <<>> THEN <<>> ELSE Head(parts) \o Concat(Tail(parts))

toCamelCase(s) ==
    LET parts == SplitWords(s, <<>>, FALSE)
    IN  Concat([i \in DOMAIN parts |->
                  IF parts[i] = <<>> THEN <<>>
                  ELSE IF i = 1 THEN ToLower(parts[i])
                  ELSE capitalize(parts[i])])

toPascalCase(s) ==
    LET parts == SplitWords(s, <<>>, FALSE)
    IN  Concat([i \in DOMAIN parts |-> capitalize(parts[i])])

Transforms == {"toSnake", "toKebab", "toCamel", "toPascal"}

Transform(f, s) ==
    CASE f = "toSnake" -> toSnakeCase(s)
      [] f = "toKebab" -> toKebabCase(s)
      [] f = "toCamel" -> toCamelCase(s)
      [] f = "toPascal" -> toPascalCase(s)

WordChars == {"a", "B", "-", "_", " "}

MyAPIProject == <<"M", "y", "A", "P", "I", "-", "P", "r", "o", "j", "e", "c", "t">>

Words == UNION {[1..n -> WordChars] : n \in 0..MaxWord} \cup {MyAPIProject}

ApplyTransform ==
    /\ fnOp = "none"
    /\ \E f \in Transforms, x \in Words :
         /\ fnOp' = f
         /\ fnIn' = [x |-> x]
         /\ fnOut' = [once |-> Transform(f, x),
                      twice |-> Transform(f, Transform(f, x))]
    /\ UNCHANGED <<genVars, valVars>>

NextCase == ApplyTransform

SpecCase == InitPure /\ [][NextCase]_vars

----------------------------------------------------------------------------
(* Properties of the casing transforms, checked under SpecCase *)

\* C23: each of toSnake, toKebab, toCamel and toPascal is idempotent on its
\* own output: f(f(x)) = f(x) for every input x.
C23_TransformsIdempotent ==
    fnOp \in Transforms => fnOut.twice = fnOut.once

\* C24: toSnake applied to "MyAPI-Project" returns "my_api_project": a run of
\* uppercase letters followed by a hyphen is one word.
C24_SnakeKeepsUppercaseRun ==
    (fnOp = "toSnake" /\ fnIn.x = MyAPIProject) =>
        fnOut.once = <<"m", "y", "_", "a", "p", "i", "_", "p", "r", "o", "j", "e", "c", "t">>

----------------------------------------------------------------------------
(* Specification of the renderer's filename functions on bounded names *)

MaxStem == 3

StemChars == {"a", ".", "l"}

Stems == UNION {[1..n -> StemChars] : n \in 0..MaxStem}

Endings ==
    {<<>>, TmplSuffix, TmplSuffix \o TmplSuffix, <<".", "t", "m", "p">>,
     <<"t", "m", "p", "l">>}

Filenames == {stem \o ending : stem \in Stems, ending \in Endings}

OutputFilename ==
    /\ fnOp = "none"
    /\ \E filename \in Filenames :
         /\ fnOp' = "GetOutputFilename"
         /\ fnIn' = [filename |-> filename]
         /\ fnOut' = [render |-> ShouldRender(filename),
                      once |-> GetOutputFilename(filename),
                      twice |-> GetOutputFilename(GetOutputFilename(filename))]
    /\ UNCHANGED <<genVars, valVars>>

NextFile == OutputFilename

SpecFile == InitPure /\ [][NextFile]_vars

\* C25 as stated: GetOutputFilename is idempotent on every filename, those
\* ending with '.tmpl' included, and returns a filename without the suffix
\* unchanged.
C25_Original_IdempotentAlways ==
    fnOp = "GetOutputFilename" =>
        /\ fnOut.twice = fnOut.once
        /\ ~HasSuffix(fnIn.filename, TmplSuffix) => fnOut.once = fnIn.filename

\* C25: GetOutputFilename removes exactly one '.tmpl' suffix: a filename
\* without the suffix is returned unchanged, and applying it twice equals
\* applying it once for every filename that does not end with '.tmpl.tmpl';
\* on a filename ending with '.tmpl.tmpl' the second application removes a
\* second suffix.
C25_IdempotentUnlessDoubleSuffix ==
    fnOp = "GetOutputFilename" =>
        LET filename == fnIn.filename
            double == HasSuffix(filename, TmplSuffix \o TmplSuffix)
        IN  /\ ~HasSuffix(filename, TmplSuffix) => fnOut.once = filename
            /\ HasSuffix(filename, TmplSuffix) =>
                  fnOut.once \o TmplSuffix = filename
            /\ ~double => fnOut.twice = fnOut.once
            /\ double => fnOut.twice \o TmplSuffix = fnOut.once

C25_Witness ==
    /\ fnOp = "GetOutputFilename"
    /\ fnIn.filename = <<"a", ".", "t", "m", "p", "l">>
    /\ fnOut.once = <<"a">>
    /\ fnOut.twice = <<"a">>

----------------------------------------------------------------------------
(* Specification of Generate over descriptors whose destinations carry the *)
(* template suffix                                                          *)

DoubleSuffixDest == <<"a">> \o TmplSuffix \o TmplSuffix
StaticSuffixDest == <<"x">> \o TmplSuffix

SuffixFileSpecs ==
    {FileSpec(MainTmpl, DoubleSuffixDest, <<>>),
     FileSpec(MainTmpl, TestTmpl, <<>>),
     FileSpec(Dockerfile, StaticSuffixDest, <<>>),
     FileSpec(Dockerfile, Dockerfile, <<Bare(IncludeDocker, <<>>, <<>>)>>)}

SuffixBundles ==
    [dir : {TRUE}, yaml : {"ok"},
     meta : [Version : {"1.0"}, Name : {"api"}, Language : {"python"},
             Framework : {"fastapi"}, Variables : {[k \in GenKeys |-> Nil]},
             Files : UNION {[1..n -> SuffixFileSpecs] : n \in 0..MaxFiles}],
     present : {Sources}]

InitRender ==
    /\ bundle \in SuffixBundles
    /\ opts \in Options
    /\ InitCall
    /\ InitFn
    /\ NoValidate

SpecRender == InitRender /\ [][Next]_vars

\* the FileSpecs among the first n that are included, in order
RECURSIVE IncludedSpecs(_, _, _)
IncludedSpecs(files, c, n) ==
    IF n = 0 THEN <<>>
    ELSE IF Included(files[n], c)
    THEN Append(IncludedSpecs(files, c, n - 1), files[n])
    ELSE IncludedSpecs(files, c, n - 1)

FileWrites == SelectSeq(writes, IsFileWrite)

Processed == IncludedSpecs(tmpl.Files, ctx, idx - 1)

InRealRun == pc # "idle" /\ ~dryRun /\ err = NoErr /\ tmpl # NoTemplate

\* the destination without one trailing '.tmpl'
Stripped(dest) ==
    IF HasSuffix(dest, TmplSuffix) THEN SubSeq(dest, 1, Len(dest) - Len(TmplSuffix))
    ELSE dest

\* C26 as stated: an included FileSpec is rendered exactly when its source
\* ends with '.tmpl'; a rendered file goes to the destination with the suffix
\* stripped, so that no path of a rendered file ends with '.tmpl'; any other
\* source is copied to the destination path unchanged.
C26_Original_NoRenderedPathHasSuffix ==
    InRealRun =>
        /\ Len(FileWrites) = Len(Processed)
        /\ \A k \in DOMAIN FileWrites :
             LET f == Processed[k]
                 w == FileWrites[k]
             IN  /\ (w.op = "rendered") = HasSuffix(f.Source, TmplSuffix)
                 /\ w.op = "rendered" =>
                       /\ w.path = Join(ctx.OutputDir, Stripped(f.Destination))
                       /\ ~HasSuffix(w.path, TmplSuffix)
                 /\ w.op = "copied" => w.path = Join(ctx.OutputDir, f.Destination)

\* C26: an included FileSpec is rendered exactly when its source ends with
\* '.tmpl'; a rendered file goes to the destination with one trailing '.tmpl'
\* removed, so its path ends with '.tmpl' only when the destination ends with
\* '.tmpl.tmpl'; any other source is copied, whole, to the destination path
\* unchanged.
C26_RenderBySourceStripOnce ==
    InRealRun =>
        /\ Len(FileWrites) = Len(Processed)
        /\ \A k \in DOMAIN FileWrites :
             LET f == Processed[k]
                 w == FileWrites[k]
                 last == \A j \in DOMAIN FileWrites : j > k => FileWrites[j].path # w.path
             IN  /\ (w.op = "rendered") = HasSuffix(f.Source, TmplSuffix)
                 /\ w.op = "rendered" =>
                       /\ w.path = Join(ctx.OutputDir, Stripped(f.Destination))
                       /\ HasSuffix(w.path, TmplSuffix)
                             = HasSuffix(f.Destination, TmplSuffix \o TmplSuffix)
                       /\ last => fs.files[w.path] = Rendered(Join(FilesDirName, f.Source))
                 /\ w.op = "copied" =>
                       /\ w.path = Join(ctx.OutputDir, f.Destination)
                       /\ last => fs.files[w.path] = Copied(Join(FilesDirName, f.Source))

C26_Witness ==
    /\ InRealRun
    /\ pc = "returned"
    /\ Len(FileWrites) = 2
    /\ FileWrites[1].op = "rendered"
    /\ Processed[1].Destination = TestTmpl
    /\ FileWrites[2].op = "copied"
    /\ HasSuffix(FileWrites[2].path, TmplSuffix)

----------------------------------------------------------------------------
(* Specification of Generate over descriptors that declare another language *)
(* or framework than the directory they are loaded from                     *)

DeclaredBundles ==
    [dir : {TRUE}, yaml : {"ok"},
     meta : [Version : {"1.0"}, Name : {"api"}, Language : {"python", "go"},
             Framework : {"fastapi", "gin", ""}, Variables : Declarations,
             Files : UNION {[1..n -> {FileSpec(Dockerfile, Dockerfile, <<>>)}] : n \in 0..1}],
     present : {Sources}]

InitMeta ==
    /\ bundle \in DeclaredBundles
    /\ opts \in Options
    /\ InitCall
    /\ InitFn
    /\ NoValidate

SpecMeta == InitMeta /\ [][Next]_vars

\* C27: the template identifier in the metadata file of a successful real
\* Generate is the 'language/framework' of the options, with which the
\* descriptor was loaded, whatever language and framework the descriptor
\* itself declares.
C27_MetadataNamesResolvedTemplate ==
    (pc = "returned" /\ ~dryRun /\ err = NoErr) =>
        fs.files[MetadataPath].body.name = <<opts.Language, opts.Framework>>

----------------------------------------------------------------------------
(* Specification of condition evaluation on comparison expressions *)

Database == <<"d", "a", "t", "a", "b", "a", "s", "e">>

String(text) == [t |-> "string", v |-> text]

DatabaseValues == {String("none"), String("postgres"), String("mysql")}

Literals == {"none", "postgres"}

LiteralText(lit) ==
    IF lit = "none" THEN <<"n", "o", "n", "e">>
    ELSE <<"p", "o", "s", "t", "g", "r", "e", "s">>

Comparisons == {<<"!", "=">>, <<"=", "=">>}

\* key op 'literal', as in conditions: ["database != 'none'"]
Expression(key, p1, op, p2, lit) ==
    key \o p1 \o op \o p2 \o <<"'">> \o LiteralText(lit) \o <<"'">>

ExpressionScopes ==
    UNION {[D \cup {Database} -> DatabaseValues \cup {BoolTrue}] : D \in SUBSET {IncludeDocker}}

EvalExpression ==
    /\ fnOp = "none"
    /\ \E variables \in ExpressionScopes, op \in Comparisons, lit \in Literals,
          p1 \in Pads, p2 \in Pads :
         LET c == FnContext(variables)
             expr == Expression(Database, p1, op, p2, lit)
         IN  /\ fnOp' = "expression"
             /\ fnIn' = [variables |-> variables, op |-> op, lit |-> lit, expr |-> expr]
             /\ fnOut' = [result |-> evaluateCondition(expr, c),
                          included |-> shouldGenerateFile(
                                          FileSpec(Dockerfile, Dockerfile, <<expr>>), c)]
    /\ UNCHANGED <<genVars, valVars>>

NextExpr == EvalExpression

SpecExpr == InitPure /\ [][NextExpr]_vars

\* C28: a condition that compares a variable with a literal, such as
\* "database != 'none'", evaluates to the truth of the comparison over the
\* variables, and a file guarded by it is included when the comparison holds.
C28_ComparisonEvaluated ==
    (fnOp = "expression" /\ fnIn.variables[Database].t = "string") =>
        LET holds == IF fnIn.op = <<"!", "=">>
                     THEN fnIn.variables[Database].v # fnIn.lit
                     ELSE fnIn.variables[Database].v = fnIn.lit
        IN  /\ fnOut.result = holds
            /\ holds => fnOut.included

----------------------------------------------------------------------------
(* Specification of Generate over variables of the special-cased keys, with *)
(* boolean and non-boolean values                                           *)

FlagKeys == {IncludeDocker, IncludeTests}

FlagFileSpecs ==
    {FileSpec(Dockerfile, Dockerfile, <<Bare(IncludeDocker, <<>>, <<>>)>>),
     FileSpec(MainTmpl, TestTmpl, <<Braced(IncludeTests, <<>>, <<" ">>, <<" ">>, <<>>)>>)}

FlagBundles ==
    [dir : {TRUE}, yaml : {"ok"},
     meta : [Version : {"1.0"}, Name : {"api"}, Language : {"python"},
             Framework : {"fastapi"},
             Variables : [FlagKeys -> {Nil, BoolTrue, StrTrue}],
             Files : UNION {[1..n -> FlagFileSpecs] : n \in 0..1}],
     present : {Sources}]

FlagOptions ==
    [ProjectName : {<<"p">>}, Language : {"python"}, Framework : {"fastapi"},
     OutputDir : {<<>>},
     Variables : UNION {[D -> {BoolTrue, BoolFalse, StrTrue}] : D \in SUBSET FlagKeys}]

InitCtx ==
    /\ bundle \in FlagBundles
    /\ opts \in FlagOptions
    /\ InitCall
    /\ InitFn
    /\ NoValidate

SpecCtx == InitCtx /\ [][Next]_vars

\* the merged variables of the running call, by the merge rule: the caller's
\* value where there is one, else the declared default where there is one
MergedValue(key) ==
    IF key \in DOMAIN opts.Variables THEN opts.Variables[key]
    ELSE IF key \in DOMAIN bundle.meta.Variables THEN bundle.meta.Variables[key]
    ELSE Nil

\* C29: throughout a Generate call, for the special-cased keys IncludeDocker
\* and IncludeTests, condition evaluation (which reads the context's
\* convenience field) gives what the generic lookup gives: true if and only
\* if the merged variable map holds the boolean true at the key, false when
\* the key is absent or holds a non-boolean value.
C29_ConvenienceFieldsFollowVariables ==
    (pc # "idle" /\ tmpl # NoTemplate) =>
        \A key \in FlagKeys :
            /\ evaluateCondition(key, ctx) = GetBool(ctx, key)
            /\ evaluateCondition(Braced(key, <<>>, <<>>, <<>>, <<>>), ctx)
                  = (MergedValue(key) = BoolTrue)
            /\ MergedValue(key) \in {Nil, StrTrue} => ~evaluateCondition(key, ctx)

C29_Witness ==
    /\ pc = "returned"
    /\ ~dryRun
    /\ err = NoErr
    /\ MergedValue(IncludeDocker) = StrTrue
    /\ MergedValue(IncludeTests) = BoolTrue
    /\ bundle.meta.Variables[IncludeTests] = Nil
    /\ Len(tmpl.Files) = 1
    /\ tmpl.Files[1].Source = Dockerfile
    /\ DOMAIN fs.files = {MetadataPath}

----------------------------------------------------------------------------
(* Shape of the result of Validate, checked under SpecVal *)

InOrder(entries) ==
    \A j, k \in DOMAIN entries : j < k => entries[j].Req < entries[k].Req

\* C30: after Validate has processed a prefix of the requirements, each
\* processed requirement has at most one entry and never both an error and a
\* warning, so len(Errors) + len(Warnings) is at most the number processed;
\* the entries of Errors and of Warnings are in requirement order; Validate
\* has no failing exit: it returns, with its result, only after the last
\* requirement.
C30_AtMostOneEntryInOrder ==
    vpc # "idle" =>
        /\ \A i \in Checked :
              Cardinality(EntriesFor("Errors", i)) + Cardinality(EntriesFor("Warnings", i)) <= 1
        /\ \A k \in DOMAIN result.Errors : result.Errors[k].Req \in Checked
        /\ \A k \in DOMAIN result.Warnings : result.Warnings[k].Req \in Checked
        /\ Len(result.Errors) + Len(result.Warnings) <= reqIdx - 1
        /\ InOrder(result.Errors)
        /\ InOrder(result.Warnings)
        /\ vpc = "done" => reqIdx = Len(reqs) + 1

C30_Witness ==
    /\ vpc = "done"
    /\ Len(reqs) = 2
    /\ Len(result.Warnings) = 2
    /\ result.Warnings[1].Message = "not found"
    /\ result.Warnings[2].Message = "error comparing version"
    /\ result.Errors = <<>>

====
